---- MODULE Spec2Model ----
(***************************************************************************)
(* Model of the pricing-and-selection engine of the steel shipment tool:   *)
(* calculate_price_diff, calculate_ship_pieces, get_weight,                *)
(* generate_manual_pricing_table and the summary computed in main.         *)
(*                                                                         *)
(* Quantities are fixed-point integers.  Tonnages and piece weights are    *)
(* counted in units of 0.0001 ton, prices in yuan per ton, profits in      *)
(* units of 0.0001 yuan.  Mill names and lengths are ASCII stand-ins for   *)
(* the source's labels; a specification is the sequence of its characters. *)
(***************************************************************************)
EXTENDS Integers, Sequences, FiniteSets, TLC

VARIABLES
    shipment_plan,        \* sequence of demand lines, in dict iteration order
    available_specs,      \* mill -> spec -> list of lengths
    weight_dict,          \* mill -> spec -> length -> piece weight
    pricing_rules,        \* mill -> steel type -> price kind -> spec -> addition
    base_prices_dict,     \* mill -> steel type -> [net, arrival]
    enable_12m_addition,  \* surcharge switch
    tonnage_tolerance,    \* allowed deviation
    manual_table,         \* the table of the latest run (sequence of rows)
    prev_table,           \* the table of the run before it
    runs,                 \* number of runs made on the loaded inputs
    summary,              \* the totals computed by main from manual_table
    call,                 \* arguments of a call of one of the two pure functions
    ret                   \* what that call returned

vars == <<shipment_plan, available_specs, weight_dict, pricing_rules,
          base_prices_dict, enable_12m_addition, tonnage_tolerance,
          manual_table, prev_table, runs, summary, call, ret>>

engineVars == <<shipment_plan, available_specs, weight_dict,
                base_prices_dict, enable_12m_addition, tonnage_tolerance,
                manual_table, prev_table, runs, summary>>

(***************************************************************************)
(* Bounds of the model.                                                    *)
(***************************************************************************)
MaxTon == 12
MaxWeight == 5
MaxTol == 3
MaxLines == 2
MaxRuns == 2

(***************************************************************************)
(* Labels.                                                                 *)
(***************************************************************************)
XuGang == "XuGang"
ShaGang == "ShaGang"
OtherMill == "OtherMill"
NoStock == "NoStock"
NoValidDiff == "NoValidDiff"
Rebar == "rebar"
Coil == "coil"
NetKind == "net"
ArrivalKind == "arrival"
L9 == "9m"
L12 == "12m"
NoLength == ""

HenanMinyuan == "HenanMinyuan"
ZhongXin == "ZhongXin"

HRB400E(suffix) == <<"H", "R", "B", "4", "0", "0", "E">> \o suffix
HRB400E6 == HRB400E(<<"6">>)
HRB400E8 == HRB400E(<<"8">>)
HRB400E10 == HRB400E(<<"1", "0">>)
HRB400E12 == HRB400E(<<"1", "2">>)
HRB400E14 == HRB400E(<<"1", "4">>)
HRB400E16 == HRB400E(<<"1", "6">>)
HRB400E18 == HRB400E(<<"1", "8">>)
HRB400E20 == HRB400E(<<"2", "0">>)
HRB400E22 == HRB400E(<<"2", "2">>)
HRB400E25 == HRB400E(<<"2", "5">>)
HRBF400E12 == <<"H", "R", "B", "F", "4", "0", "0", "E", "1", "2">>

\* Python's None, and a value that is present.
None == <<>>
Some(v) == <<v>>
EmptyMap == [x \in {} |-> 0]

(***************************************************************************)
(* Arithmetic helpers.                                                     *)
(***************************************************************************)
Abs(x) == IF x < 0 THEN 0 - x ELSE x

\* Python's round to a multiple of q (ties go to the even multiple).
RoundTo(x, q) ==
    LET lo == (x \div q) * q
        r == x - lo
    IN  IF 2 * r < q THEN lo
        ELSE IF 2 * r > q THEN lo + q
        ELSE IF (lo \div q) % 2 = 0 THEN lo ELSE lo + q

Round2(x) == RoundTo(x, 100)
Round3(x) == RoundTo(x, 10)

\* int(x / y) for y > 0: truncation toward zero.
IntDiv(x, y) == IF x >= 0 THEN x \div y ELSE 0 - ((0 - x) \div y)

(***************************************************************************)
(* calculate_ship_pieces                                                   *)
(***************************************************************************)
ship_pieces_keep_floor(tonnage, weight, tolerance) ==
    IF weight <= 0 \/ tonnage <= 0 THEN <<0, 0>>
    ELSE LET base_pieces == IntDiv(tonnage, weight)
             base_weight == base_pieces * weight
         IN  IF base_pieces = 0 THEN <<1, weight>>
             ELSE <<base_pieces, base_weight>>

ship_pieces_round_up_on_equal(tonnage, weight, tolerance) ==
    IF weight <= 0 \/ tonnage <= 0 THEN <<0, 0>>
    ELSE LET base_pieces == IntDiv(tonnage, weight)
             base_weight == base_pieces * weight
             diff == tonnage - base_weight
         IN  IF base_pieces = 0 THEN <<1, weight>>
             ELSE IF diff >= tolerance
                  THEN <<base_pieces + 1, (base_pieces + 1) * weight>>
                  ELSE <<base_pieces, base_weight>>

calculate_ship_pieces(tonnage, weight, tolerance) ==
    IF weight <= 0 \/ tonnage <= 0 THEN <<0, 0>>
    ELSE LET base_pieces == IntDiv(tonnage, weight)
             base_weight == base_pieces * weight
             diff == tonnage - base_weight
         IN  IF base_pieces = 0 THEN <<1, weight>>
             ELSE IF diff > tolerance
                  THEN <<base_pieces + 1, (base_pieces + 1) * weight>>
                  ELSE <<base_pieces, base_weight>>

(***************************************************************************)
(* Dictionary helpers.  A dict is a function; a key that is absent is      *)
(* outside its DOMAIN.                                                     *)
(***************************************************************************)
Has(d, k) == k \in DOMAIN d

\* d.get(k, default)
Get(d, k, default) == IF k \in DOMAIN d THEN d[k] ELSE default

\* d[k] = v
Put(d, k, v) == [x \in (DOMAIN d) \cup {k} |-> IF x = k THEN v ELSE d[x]]

(***************************************************************************)
(* calculate_price_diff                                                    *)
(***************************************************************************)
SurchargeMills == {XuGang, HenanMinyuan, ZhongXin}
SurchargeSpecs == {HRB400E12, HRB400E14, HRB400E16, HRB400E18, HRB400E20,
                   HRB400E22, HRB400E25}
SurchargeAmount == 30

\* pricing_rules[steel_mill][steel_type] on the nested defaultdict built by
\* load_pricing_rules: a missing mill or steel type reads as an empty dict.
rules_lookup(rules, steel_mill, steel_type) ==
    IF Has(rules, steel_mill) /\ Has(rules[steel_mill], steel_type)
    THEN rules[steel_mill][steel_type]
    ELSE EmptyMap

\* ... and the same subscription stores the defaults it created.
rules_after_lookup(rules, steel_mill, steel_type) ==
    IF ~Has(rules, steel_mill)
    THEN Put(rules, steel_mill, Put(EmptyMap, steel_type, EmptyMap))
    ELSE IF ~Has(rules[steel_mill], steel_type)
         THEN Put(rules, steel_mill, Put(rules[steel_mill], steel_type, EmptyMap))
         ELSE rules

price_diff_of_base_on_miss(steel_mill, steel_type, spec, length, base_net_price, base_arrival_price, rules, enable) ==
    LET price_rules == rules_lookup(rules, steel_mill, steel_type)
        net_addition == Get(Get(price_rules, NetKind, EmptyMap), spec, 0)
        arrival_addition == Get(Get(price_rules, ArrivalKind, EmptyMap), spec, 0)
        arrival_price == base_arrival_price + arrival_addition
        net_price == base_net_price + net_addition
                     + (IF enable /\ steel_mill \in SurchargeMills
                           /\ length = L12 /\ spec \in SurchargeSpecs
                        THEN SurchargeAmount ELSE 0)
    IN  <<net_price - arrival_price, net_price, arrival_price>>

price_diff_surcharge_always(steel_mill, steel_type, spec, length, base_net_price, base_arrival_price, rules, enable) ==
    LET price_rules == rules_lookup(rules, steel_mill, steel_type)
    IN  IF ~Has(price_rules, NetKind) \/ ~Has(price_rules, ArrivalKind)
        THEN <<0, base_net_price, base_arrival_price>>
        ELSE LET net_addition == Get(price_rules[NetKind], spec, 0)
                 arrival_addition == Get(price_rules[ArrivalKind], spec, 0)
                 arrival_price == base_arrival_price + arrival_addition
                 net_price == base_net_price + net_addition
                              + (IF steel_mill \in SurchargeMills /\ length = L12
                                    /\ spec \in SurchargeSpecs
                                 THEN SurchargeAmount ELSE 0)
             IN  <<net_price - arrival_price, net_price, arrival_price>>

calculate_price_diff(steel_mill, steel_type, spec, length, base_net_price, base_arrival_price, rules, enable) ==
    LET price_rules == rules_lookup(rules, steel_mill, steel_type)
    IN  IF ~Has(price_rules, NetKind) \/ ~Has(price_rules, ArrivalKind)
        THEN <<0, base_net_price, base_arrival_price>>
        ELSE LET net_addition == Get(price_rules[NetKind], spec, 0)
                 arrival_addition == Get(price_rules[ArrivalKind], spec, 0)
                 arrival_price == base_arrival_price + arrival_addition
                 net_price == base_net_price + net_addition
                              + (IF enable /\ steel_mill \in SurchargeMills
                                    /\ length = L12 /\ spec \in SurchargeSpecs
                                 THEN SurchargeAmount ELSE 0)
             IN  <<net_price - arrival_price, net_price, arrival_price>>

(***************************************************************************)
(* get_weight and the classification of a specification                    *)
(***************************************************************************)
CoilSpecs == {HRB400E6, HRB400E8, HRB400E10}

steel_type_of(spec) == IF spec \in CoilSpecs THEN Coil ELSE Rebar

get_weight(steel_mill, spec, length, weights) ==
    LET key == IF spec \in CoilSpecs THEN NoLength ELSE length
    IN  IF Has(weights, steel_mill) /\ Has(weights[steel_mill], spec)
           /\ Has(weights[steel_mill][spec], key)
        THEN Some(weights[steel_mill][spec][key])
        ELSE None

\* int(''.join(filter(str.isdigit, spec))) if any digit else 0
Digits == {"0", "1", "2", "3", "4", "5", "6", "7", "8", "9"}

DigitValue(c) ==
    CASE c = "0" -> 0 [] c = "1" -> 1 [] c = "2" -> 2 [] c = "3" -> 3
      [] c = "4" -> 4 [] c = "5" -> 5 [] c = "6" -> 6 [] c = "7" -> 7
      [] c = "8" -> 8 [] c = "9" -> 9

RECURSIVE DigitsToInt(_, _)
DigitsToInt(s, acc) ==
    IF s = <<>> THEN acc
    ELSE DigitsToInt(Tail(s),
                     IF Head(s) \in Digits THEN 10 * acc + DigitValue(Head(s))
                     ELSE acc)

spec_num_of(spec) == DigitsToInt(spec, 0)

(***************************************************************************)
(* generate_manual_pricing_table                                           *)
(***************************************************************************)
Range(s) == {s[i] : i \in 1..Len(s)}

RECURSIVE Concat(_)
Concat(ss) == IF ss = <<>> THEN <<>> ELSE Head(ss) \o Concat(Tail(ss))

\* Iteration order of a dict keyed by mill: the order in which
\* load_available_specs inserted the mills (its groupby yields sorted keys).
MillOrder == <<HenanMinyuan, OtherMill, ShaGang, XuGang, ZhongXin>>

mills_of(avail) == SelectSeq(MillOrder, LAMBDA m : m \in DOMAIN avail)

\* Iteration of set(lengths): the elements in the order ord ranks them.
iterate_set(lengths, ord) == SelectSeq(ord, LAMBDA l : l \in lengths)

all_available_specs_of(avail) == UNION {DOMAIN avail[m] : m \in DOMAIN avail}

degenerate_row_ships_plan(building, spec, tonnage, label) ==
    [building |-> building, spec |-> spec, spec_num |-> spec_num_of(spec),
     length |-> NoLength, mill |-> label, net_price |-> 0, arrival_price |-> 0,
     price_diff |-> 0, weight |-> 0, plan_tonnage |-> Round2(tonnage),
     ship_pieces |-> 0, ship_weight |-> Round2(tonnage), profit |-> 0,
     is_max_diff |-> FALSE, is_out_of_stock |-> TRUE]

degenerate_row(building, spec, tonnage, label) ==
    [building |-> building, spec |-> spec, spec_num |-> spec_num_of(spec),
     length |-> NoLength, mill |-> label, net_price |-> 0, arrival_price |-> 0,
     price_diff |-> 0, weight |-> 0, plan_tonnage |-> Round2(tonnage),
     ship_pieces |-> 0, ship_weight |-> 0, profit |-> 0,
     is_max_diff |-> FALSE, is_out_of_stock |-> TRUE]

\* The body of the loop over lengths: no row or one row.
rows_keep_zero_diff(building, spec, tonnage, steel_mill, length, weights, rules, base, enable, tolerance) ==
    LET steel_type == steel_type_of(spec)
        base_prices == base[steel_mill][steel_type]
        pd == calculate_price_diff(steel_mill, steel_type, spec, length,
                                   Get(base_prices, NetKind, 0),
                                   Get(base_prices, ArrivalKind, 0), rules, enable)
        found == get_weight(steel_mill, spec, length, weights)
    IN  IF pd[1] < 0 THEN <<>>
        ELSE IF found = None THEN <<>>
        ELSE IF found[1] <= 0 THEN <<>>
        ELSE LET weight == found[1]
                 sp == calculate_ship_pieces(tonnage, weight, tolerance)
             IN  << [building |-> building, spec |-> spec,
                     spec_num |-> spec_num_of(spec), length |-> length,
                     mill |-> steel_mill, net_price |-> pd[2],
                     arrival_price |-> pd[3], price_diff |-> pd[1],
                     weight |-> Round3(weight), plan_tonnage |-> Round2(tonnage),
                     ship_pieces |-> sp[1], ship_weight |-> Round2(sp[2]),
                     profit |-> Round2(pd[1] * tonnage),
                     is_max_diff |-> FALSE, is_out_of_stock |-> FALSE] >>

rows_of_length(building, spec, tonnage, steel_mill, length, weights, rules, base, enable, tolerance) ==
    LET steel_type == steel_type_of(spec)
        base_prices == base[steel_mill][steel_type]
        pd == calculate_price_diff(steel_mill, steel_type, spec, length,
                                   Get(base_prices, NetKind, 0),
                                   Get(base_prices, ArrivalKind, 0), rules, enable)
        found == get_weight(steel_mill, spec, length, weights)
    IN  IF pd[1] <= 0 THEN <<>>
        ELSE IF found = None THEN <<>>
        ELSE IF found[1] <= 0 THEN <<>>
        ELSE LET weight == found[1]
                 sp == calculate_ship_pieces(tonnage, weight, tolerance)
             IN  << [building |-> building, spec |-> spec,
                     spec_num |-> spec_num_of(spec), length |-> length,
                     mill |-> steel_mill, net_price |-> pd[2],
                     arrival_price |-> pd[3], price_diff |-> pd[1],
                     weight |-> Round3(weight), plan_tonnage |-> Round2(tonnage),
                     ship_pieces |-> sp[1], ship_weight |-> Round2(sp[2]),
                     profit |-> Round2(pd[1] * tonnage),
                     is_max_diff |-> FALSE, is_out_of_stock |-> FALSE] >>

\* A mill passes the guards of the loop over candidate_mills.
mill_usable(steel_mill, spec, avail, base) ==
    /\ Has(base, steel_mill)
    /\ Has(base[steel_mill], steel_type_of(spec))
    /\ Range(Get(avail[steel_mill], spec, <<>>)) # {}

\* The body of the loop over candidate_mills.
rows_of_mill(building, spec, tonnage, steel_mill, avail, weights, rules, base, enable, tolerance, ord) ==
    IF ~mill_usable(steel_mill, spec, avail, base) THEN <<>>
    ELSE LET lengths == iterate_set(Range(avail[steel_mill][spec]), ord)
         IN  Concat([i \in 1..Len(lengths) |->
                       rows_of_length(building, spec, tonnage, steel_mill,
                                      lengths[i], weights, rules, base, enable,
                                      tolerance)])

candidate_mills_of(spec, avail) ==
    SelectSeq(mills_of(avail), LAMBDA m : spec \in DOMAIN avail[m])

\* The body of the loop over the demand lines.
rows_of_line(line, avail, weights, rules, base, enable, tolerance, ord) ==
    IF line.spec \notin all_available_specs_of(avail)
    THEN <<degenerate_row(line.building, line.spec, line.tonnage, NoStock)>>
    ELSE LET candidate_mills == candidate_mills_of(line.spec, avail)
             valid == Concat([i \in 1..Len(candidate_mills) |->
                                rows_of_mill(line.building, line.spec, line.tonnage,
                                             candidate_mills[i], avail, weights,
                                             rules, base, enable, tolerance, ord)])
         IN  IF Len(valid) = 0
             THEN <<degenerate_row(line.building, line.spec, line.tonnage,
                                   NoValidDiff)>>
             ELSE valid

all_candidates_of(plan, avail, weights, rules, base, enable, tolerance, ord) ==
    Concat([i \in 1..Len(plan) |->
              rows_of_line(plan[i], avail, weights, rules, base, enable,
                           tolerance, ord)])

\* Order of two building identifiers, which are strings of digits: Python
\* compares them character by character, a proper prefix coming first.
RECURSIVE str_less(_, _)
str_less(a, b) ==
    IF b = <<>> THEN FALSE
    ELSE IF a = <<>> THEN TRUE
    ELSE IF Head(a) # Head(b) THEN DigitValue(Head(a)) < DigitValue(Head(b))
    ELSE str_less(Tail(a), Tail(b))

\* df.sort_values([building, spec_num, price_diff], ascending=[T, T, F]):
\* a strictly precedes b in the sort order.
row_before_diff_ascending(a, b) ==
    \/ str_less(a.building, b.building)
    \/ a.building = b.building /\ a.spec_num < b.spec_num
    \/ a.building = b.building /\ a.spec_num = b.spec_num
       /\ a.price_diff < b.price_diff

row_before(a, b) ==
    \/ str_less(a.building, b.building)
    \/ a.building = b.building /\ a.spec_num < b.spec_num
    \/ a.building = b.building /\ a.spec_num = b.spec_num
       /\ a.price_diff > b.price_diff

\* The sort on several columns is stable: r, which came after every row of
\* sorted, goes behind the rows it does not strictly precede.
insert_row(sorted, r) ==
    LET before == {i \in 1..Len(sorted) : row_before(r, sorted[i])}
        k == IF before = {} THEN Len(sorted) + 1
             ELSE CHOOSE i \in before : \A j \in before : i <= j
    IN  SubSeq(sorted, 1, k - 1) \o <<r>> \o SubSeq(sorted, k, Len(sorted))

RECURSIVE sort_into(_, _)
sort_into(rest, sorted) ==
    IF rest = <<>> THEN sorted
    ELSE sort_into(Tail(rest), insert_row(sorted, Head(rest)))

sort_values(df) == sort_into(df, <<>>)

same_group(a, b) == a.building = b.building /\ a.spec = b.spec

mark_first_only(df) ==
    [i \in 1..Len(df) |->
        [df[i] EXCEPT !.is_max_diff =
            /\ \A j \in 1..Len(df) :
                  same_group(df[j], df[i]) => df[j].price_diff <= df[i].price_diff
            /\ \A j \in 1..(i - 1) :
                  same_group(df[j], df[i]) => df[j].price_diff # df[i].price_diff]]

\* groupby([building, spec])[price_diff].transform(lambda x: x == x.max())
mark_max_diff(df) ==
    [i \in 1..Len(df) |->
        [df[i] EXCEPT !.is_max_diff =
            \A j \in 1..Len(df) :
                same_group(df[j], df[i]) => df[j].price_diff <= df[i].price_diff]]

generate_manual_pricing_table(plan, avail, weights, rules, base, enable, tolerance, ord) ==
    LET all_candidates == all_candidates_of(plan, avail, weights, rules, base,
                                            enable, tolerance, ord)
    IN  IF all_candidates = <<>> THEN <<>>
        ELSE mark_max_diff(sort_values(all_candidates))

\* The (mill, steel type) pairs the run subscripts pricing_rules with.
looked_up(plan, avail, base) ==
    {<<m, steel_type_of(plan[i].spec)>> :
        <<i, m>> \in {p \in (1..Len(plan)) \X (DOMAIN avail) :
                        /\ plan[p[1]].spec \in DOMAIN avail[p[2]]
                        /\ mill_usable(p[2], plan[p[1]].spec, avail, base)}}

RECURSIVE rules_after_all(_, _)
rules_after_all(rules, pairs) ==
    IF pairs = {} THEN rules
    ELSE LET p == CHOOSE q \in pairs : TRUE
         IN  rules_after_all(rules_after_lookup(rules, p[1], p[2]), pairs \ {p})

(***************************************************************************)
(* The summary of main                                                     *)
(***************************************************************************)
RECURSIVE SumOver(_, _, _)
SumOver(df, idx, field) ==
    IF idx = {} THEN 0
    ELSE LET i == CHOOSE j \in idx : TRUE
         IN  df[i][field] + SumOver(df, idx \ {i}, field)

idxmax_last(df) ==
    {i \in 1..Len(df) :
        /\ ~df[i].is_out_of_stock
        /\ \A j \in 1..Len(df) :
              (~df[j].is_out_of_stock /\ same_group(df[j], df[i]))
                 => /\ df[j].price_diff <= df[i].price_diff
                    /\ (j > i => df[j].price_diff < df[i].price_diff)}

\* valid_table.groupby([building, spec])[price_diff].idxmax(): per group of
\* rows that are not out of stock, the first row that has the largest value.
idxmax(df) ==
    {i \in 1..Len(df) :
        /\ ~df[i].is_out_of_stock
        /\ \A j \in 1..Len(df) :
              (~df[j].is_out_of_stock /\ same_group(df[j], df[i]))
                 => /\ df[j].price_diff <= df[i].price_diff
                    /\ (j < i => df[j].price_diff < df[i].price_diff)}

NoSummary == [plan_total_weight |-> 0, ship_total_pieces |-> 0,
              ship_total_weight |-> 0, total_profit |-> 0, shown |-> FALSE]

summary_of(df) ==
    IF df = <<>> THEN NoSummary
    ELSE LET idx == idxmax(df)
         IN  [plan_total_weight |-> SumOver(df, idx, "plan_tonnage"),
              ship_total_pieces |-> SumOver(df, idx, "ship_pieces"),
              ship_total_weight |-> SumOver(df, idx, "ship_weight"),
              total_profit |-> SumOver(df, idx, "profit"),
              shown |-> TRUE]

(***************************************************************************)
(* The inputs the runs are made on.                                        *)
(***************************************************************************)
Lengths == {NoLength, L9, L12}
\* The orders in which a process may iterate a set of lengths.  The blank
\* length is the only element of the sets it occurs in, so its rank is fixed.
LengthOrders == {o \in [1..Cardinality(Lengths) -> Lengths] :
                    /\ \A i, j \in DOMAIN o : o[i] = o[j] => i = j
                    /\ o[1] = NoLength}

Building2 == <<"2">>
Building10 == <<"1", "0">>
Buildings == {Building2, Building10}
PlanSpecs == {HRB400E8, HRB400E12, HRBF400E12}

\* Tonnage of the i-th demand line: 7.2 t and 11.2004 t in turn.
TonnageAt(i) == IF i % 2 = 1 THEN 72000 ELSE 112004

\* A plan is a dict of dicts: a (building, spec) pair occurs once and the
\* lines of a building follow each other.
IsPlan(p) ==
    /\ \A i, j \in DOMAIN p :
          (p[i].building = p[j].building /\ p[i].spec = p[j].spec) => i = j
    /\ \A i, j, k \in DOMAIN p :
          (i < j /\ j < k /\ p[i].building = p[k].building)
             => p[j].building = p[i].building

PlansOfLength(n) ==
    {[i \in 1..n |-> [building |-> k[i][1], spec |-> k[i][2],
                      tonnage |-> TonnageAt(i)]] :
        k \in [1..n -> Buildings \X PlanSpecs]}

Plans == {p \in UNION {PlansOfLength(n) : n \in 0..MaxLines} : IsPlan(p)}

Entry(present, k, v) == IF present THEN k :> v ELSE EmptyMap

\* What load_available_specs can return: a mill is a key only if it offers
\* a spec, and the list of lengths of a spec is never empty.
AvailTable(xu12, sha12, coil) ==
    LET xu == Entry(xu12, HRB400E12, <<L9, L12>>)
              @@ Entry(coil >= 1, HRB400E8, <<NoLength>>)
        sha == Entry(sha12, HRB400E12, <<L9, L12>>)
               @@ HRBF400E12 :> <<L9, L12>>
               @@ Entry(coil >= 2, HRB400E8, <<L9>>)
        zhong == Entry(coil >= 3, HRB400E8, <<NoLength>>)
    IN  Entry(DOMAIN xu # {}, XuGang, xu) @@ ShaGang :> sha
        @@ Entry(DOMAIN zhong # {}, ZhongXin, zhong)

AvailTables ==
    {AvailTable(xu12, sha12, coil) :
        xu12 \in BOOLEAN, sha12 \in BOOLEAN, coil \in {0, 1, 2, 3}}

Prices(net, arrival) == NetKind :> net @@ ArrivalKind :> arrival

\* What load_daily_base_prices can return: both prices of an entry positive.
BaseTable(xuRebar, shaRebar) ==
    XuGang :> (Entry(xuRebar, Rebar, Prices(3500, 3455))
               @@ Coil :> Prices(3600, 3555))
    @@ ShaGang :> (Rebar :> shaRebar @@ Coil :> Prices(3600, 3555))
    @@ ZhongXin :> (Coil :> Prices(3600, 3555))

BaseTables ==
    {BaseTable(xuRebar, shaRebar) :
        xuRebar \in BOOLEAN, shaRebar \in {Prices(3530, 3455), Prices(3500, 3500)}}

\* The slider's default, 1.0 t.
Tolerances == {10000}

\* The piece weights of the reference file.
LoadedWeights ==
    XuGang :> (HRB400E12 :> (L9 :> 20000 @@ L12 :> 25004))
    @@ ShaGang :> (HRB400E12 :> (L9 :> 20000 @@ L12 :> 26000)
                   @@ HRBF400E12 :> (L9 :> 30000 @@ L12 :> 0)
                   @@ HRB400E8 :> (NoLength :> 21000))
    @@ ZhongXin :> (HRB400E8 :> (NoLength :> 22000))

\* The rule set load_pricing_rules builds from the reference file.
LoadedRules ==
    XuGang :> (Rebar :> (NetKind :> (HRB400E12 :> 10)
                         @@ ArrivalKind :> (HRB400E12 :> 10))
               @@ Coil :> (NetKind :> (HRB400E8 :> 20)
                           @@ ArrivalKind :> EmptyMap))
    @@ ShaGang :> (Rebar :> (NetKind :> (HRBF400E12 :> 60)
                             @@ ArrivalKind :> EmptyMap)
                   @@ Coil :> (NetKind :> EmptyMap @@ ArrivalKind :> EmptyMap))

(***************************************************************************)
(* The engine: one run of main on the loaded inputs.                       *)
(***************************************************************************)
Init ==
    /\ shipment_plan \in Plans
    /\ available_specs \in AvailTables
    /\ weight_dict = LoadedWeights
    /\ pricing_rules = LoadedRules
    /\ base_prices_dict \in BaseTables
    /\ enable_12m_addition \in BOOLEAN
    /\ tonnage_tolerance \in Tolerances
    /\ manual_table = <<>>
    /\ prev_table = <<>>
    /\ runs = 0
    /\ summary = NoSummary
    /\ call = <<>>
    /\ ret = <<>>

\* ord: the order in which this run's process iterates a set of lengths.
main(ord) ==
    /\ runs < MaxRuns
    /\ manual_table' = generate_manual_pricing_table(
                          shipment_plan, available_specs, weight_dict,
                          pricing_rules, base_prices_dict, enable_12m_addition,
                          tonnage_tolerance, ord)
    /\ pricing_rules' = rules_after_all(
                          pricing_rules,
                          looked_up(shipment_plan, available_specs,
                                    base_prices_dict))
    /\ summary' = summary_of(manual_table')
    /\ prev_table' = manual_table
    /\ runs' = runs + 1
    /\ UNCHANGED <<shipment_plan, available_specs, weight_dict, base_prices_dict,
                   enable_12m_addition, tonnage_tolerance, call, ret>>

Next == \E ord \in LengthOrders : main(ord)

Spec == Init /\ [][Next]_vars

(***************************************************************************)
(* calculate_ship_pieces on its own: the arguments are drawn by Init, the  *)
(* action makes the call.                                                  *)
(***************************************************************************)
IdleEngine ==
    /\ shipment_plan = <<>>
    /\ available_specs = EmptyMap
    /\ weight_dict = LoadedWeights
    /\ base_prices_dict = EmptyMap
    /\ enable_12m_addition = TRUE
    /\ tonnage_tolerance = 10000
    /\ manual_table = <<>>
    /\ prev_table = <<>>
    /\ runs = 0
    /\ summary = NoSummary

InitPieces ==
    /\ IdleEngine
    /\ pricing_rules = LoadedRules
    /\ call \in [tonnage : -1..MaxTon, weight : -1..MaxWeight,
                 tolerance : 0..MaxTol]
    /\ ret = None

CallShipPieces ==
    /\ ret = None
    /\ ret' = Some(calculate_ship_pieces(call.tonnage, call.weight,
                                         call.tolerance))
    /\ UNCHANGED <<engineVars, pricing_rules, call>>

NextPieces == CallShipPieces

SpecPieces == InitPieces /\ [][NextPieces]_vars

(***************************************************************************)
(* calculate_price_diff on its own: the arguments and the rule set are     *)
(* drawn by Init, the action makes the call with the switch on or off.     *)
(***************************************************************************)
\* Rule sets: the loaded one, an empty one, and one in which a mill has an
\* arrival price kind only.
RuleSets ==
    {LoadedRules, EmptyMap,
     XuGang :> (Rebar :> (ArrivalKind :> (HRB400E12 :> 5))),
     XuGang :> (Rebar :> (NetKind :> (HRB400E12 :> 15 @@ HRBF400E12 :> 5)
                          @@ ArrivalKind :> (HRB400E12 :> 20)))
       @@ ZhongXin :> (Rebar :> (NetKind :> EmptyMap @@ ArrivalKind :> EmptyMap))}

BasePairs == {<<3500, 3455>>, <<3500, 3500>>, <<3400, 3455>>}

InitPrice ==
    /\ IdleEngine
    /\ pricing_rules \in RuleSets
    /\ call \in [steel_mill : {XuGang, ZhongXin, ShaGang, OtherMill},
                 steel_type : {Rebar, Coil},
                 spec : {HRB400E8, HRB400E12, HRB400E25, HRBF400E12},
                 length : Lengths,
                 base : BasePairs,
                 rules : {pricing_rules}]
    /\ ret = [e \in BOOLEAN |-> None]

CallPriceDiff(enable) ==
    /\ ret[enable] = None
    /\ ret' = [ret EXCEPT ![enable] =
                 Some(calculate_price_diff(call.steel_mill, call.steel_type,
                                           call.spec, call.length, call.base[1],
                                           call.base[2], pricing_rules, enable))]
    /\ pricing_rules' = rules_after_lookup(pricing_rules, call.steel_mill,
                                           call.steel_type)
    /\ UNCHANGED <<engineVars, call>>

NextPrice == \E enable \in BOOLEAN : CallPriceDiff(enable)

SpecPrice == InitPrice /\ [][NextPrice]_vars

(***************************************************************************)
(* Properties of the table and the summary.                                *)
(***************************************************************************)
RowsOf(df, building, spec) ==
    {i \in 1..Len(df) : df[i].building = building /\ df[i].spec = spec}

GroupOf(df, i) == RowsOf(df, df[i].building, df[i].spec)

Maximum(S) == CHOOSE d \in S : \A e \in S : e <= d

GroupMaxDiff(df, i) == Maximum({df[j].price_diff : j \in GroupOf(df, i)})

HasValidRow(df, i) == \E j \in GroupOf(df, i) : ~df[j].is_out_of_stock

\* C1: in every (building, spec) group of the table that has a row which is
\* not degenerate, a row is flagged is_max_diff exactly if its differential
\* is the largest of the group, so all rows that tie for it are flagged.
C1_MaxDiffFlagged ==
    \A i \in 1..Len(manual_table) :
        HasValidRow(manual_table, i)
           => (manual_table[i].is_max_diff
                  <=> manual_table[i].price_diff = GroupMaxDiff(manual_table, i))

C1_Witness ==
    /\ runs >= 1
    /\ \E i, j \in 1..Len(manual_table) :
          /\ i # j
          /\ j \in GroupOf(manual_table, i)
          /\ manual_table[i].mill # manual_table[j].mill
          /\ manual_table[i].is_max_diff /\ manual_table[j].is_max_diff
          /\ ~manual_table[i].is_out_of_stock
          /\ \E k \in GroupOf(manual_table, i) : ~manual_table[k].is_max_diff

\* C2: no row of the table is both degenerate (is_out_of_stock) and flagged
\* best in its group (is_max_diff).
C2_DegenerateNeverBest ==
    \A i \in 1..Len(manual_table) :
        ~(manual_table[i].is_out_of_stock /\ manual_table[i].is_max_diff)

SummaryOver(df, idx) ==
    [plan_total_weight |-> SumOver(df, idx, "plan_tonnage"),
     ship_total_pieces |-> SumOver(df, idx, "ship_pieces"),
     ship_total_weight |-> SumOver(df, idx, "ship_weight"),
     total_profit |-> SumOver(df, idx, "profit"),
     shown |-> TRUE]

Flagged(df) == {i \in 1..Len(df) : df[i].is_max_diff /\ ~df[i].is_out_of_stock}

FirstFlagged(df) ==
    {i \in Flagged(df) : \A j \in Flagged(df) : j \in GroupOf(df, i) => i <= j}

\* C3 as stated: the summary is the sum of the four fields over all rows
\* that are flagged best in their group and are not degenerate.
C3_SummaryOverAllFlagged ==
    summary.shown => summary = SummaryOver(manual_table, Flagged(manual_table))

\* C3: the summary is the sum of the four fields over one row per group, the
\* first in table order of the rows that are flagged and not degenerate.
C3_SummaryOverFirstFlagged ==
    summary.shown => summary = SummaryOver(manual_table, FirstFlagged(manual_table))

C3_Witness ==
    /\ summary.shown
    /\ \E i, j \in Flagged(manual_table) :
          /\ i # j
          /\ j \in GroupOf(manual_table, i)
          /\ manual_table[i].ship_pieces # manual_table[j].ship_pieces

\* The (mill, length) pairs a mill offers for the spec of a demand line.
OfferedPairs(line) ==
    {p \in (DOMAIN available_specs) \X Lengths :
        /\ line.spec \in DOMAIN available_specs[p[1]]
        /\ p[2] \in Range(available_specs[p[1]][line.spec])}

ResolvedDiff(line, p) ==
    LET steel_type == steel_type_of(line.spec)
        base_prices == base_prices_dict[p[1]][steel_type]
    IN  calculate_price_diff(p[1], steel_type, line.spec, p[2],
                             base_prices[NetKind], base_prices[ArrivalKind],
                             pricing_rules, enable_12m_addition)[1]

\* ... of which the mill has base prices and the differential is positive,
PositivePairs(line) ==
    {p \in OfferedPairs(line) :
        /\ Has(base_prices_dict, p[1])
        /\ Has(base_prices_dict[p[1]], steel_type_of(line.spec))
        /\ ResolvedDiff(line, p) > 0}

\* ... and of which the piece weight is known and positive too.
ValidPairs(line) ==
    {p \in PositivePairs(line) :
        LET found == get_weight(p[1], line.spec, p[2], weight_dict)
        IN  found # None /\ found[1] > 0}

LineRows(line) == RowsOf(manual_table, line.building, line.spec)

PlanLines == Range(shipment_plan)

\* C4 as stated: a demand line yields exactly one row if and only if no mill
\* offers its spec or no differential is positive, and otherwise one row per
\* offered pair with a positive differential and a positive weight.
C4_OneRowIffNoneValid ==
    runs >= 1 =>
        \A line \in PlanLines :
            LET none == OfferedPairs(line) = {} \/ PositivePairs(line) = {}
            IN  /\ Cardinality(LineRows(line)) = 1 <=> none
                /\ ~none => Cardinality(LineRows(line))
                               = Cardinality(ValidPairs(line))

\* C4: a demand line with no valid pair (offered, with base prices, with a
\* positive differential and a positive weight) yields one row, which is
\* degenerate; any other line yields one row per valid pair, none degenerate.
C4_DegenerateIffNoValidPair ==
    runs >= 1 =>
        \A line \in PlanLines :
            LET rows == LineRows(line)
            IN  IF ValidPairs(line) = {}
                THEN /\ Cardinality(rows) = 1
                     /\ \A i \in rows : manual_table[i].is_out_of_stock
                ELSE /\ Cardinality(rows) = Cardinality(ValidPairs(line))
                     /\ {<<manual_table[i].mill, manual_table[i].length>> :
                            i \in rows} = ValidPairs(line)
                     /\ \A i \in rows : ~manual_table[i].is_out_of_stock

C4_Witness ==
    /\ runs >= 1
    /\ \E line \in PlanLines : Cardinality(ValidPairs(line)) >= 2
    /\ \E line \in PlanLines :
          PositivePairs(line) # {} /\ ValidPairs(line) = {}

(***************************************************************************)
(* Properties of calculate_ship_pieces.                                    *)
(***************************************************************************)
\* floor(t / w) for t >= 0 and w > 0
Floor(t, w) == CHOOSE q \in 0..t : q * w <= t /\ t < (q + 1) * w

\* The planner of the design: (pieces, actual tonnage).
planPieces(tonnage, unitWeight, tolerance) ==
    IF tonnage <= 0 \/ unitWeight <= 0 THEN <<0, 0>>
    ELSE LET basePieces == Floor(tonnage, unitWeight)
         IN  CASE basePieces = 0 -> <<1, unitWeight>>
               [] basePieces # 0 /\ tonnage - basePieces * unitWeight > tolerance
                    -> <<basePieces + 1, (basePieces + 1) * unitWeight>>
               [] OTHER -> <<basePieces, basePieces * unitWeight>>

\* C5: outside the branch that ships one piece for a tonnage below one
\* piece, the actual tonnage is within tolerance of the planned tonnage.
C5_WithinTolerance ==
    (ret # None /\ call.tonnage > 0 /\ call.weight > 0
        /\ Floor(call.tonnage, call.weight) >= 1)
       => Abs(ret[1][2] - call.tonnage) <= call.tolerance

\* C6: calculate_ship_pieces returns what the planner of the design
\* returns, at least one piece for a positive tonnage and weight, and an
\* actual tonnage of pieces times weight.
C6_AgreesWithPlanner ==
    ret # None =>
        /\ ret[1] = planPieces(call.tonnage, call.weight, call.tolerance)
        /\ (call.tonnage > 0 /\ call.weight > 0) => ret[1][1] >= 1
        /\ (call.tonnage > 0 /\ call.weight > 0)
              => ret[1][2] = ret[1][1] * call.weight

C6_Witness ==
    /\ ret # None
    /\ call.tonnage > 0 /\ call.weight > 0
    /\ Floor(call.tonnage, call.weight) >= 1
    /\ call.tonnage - Floor(call.tonnage, call.weight) * call.weight
          = call.tolerance
    /\ call.tolerance > 0
    /\ ret[1][1] = Floor(call.tonnage, call.weight)

(***************************************************************************)
(* Properties of calculate_price_diff.                                     *)
(***************************************************************************)
SurchargeMatches ==
    /\ call.steel_mill \in {XuGang, HenanMinyuan, ZhongXin}
    /\ call.length = L12
    /\ call.spec \in SurchargeSpecs

RulesExist ==
    LET price_rules == rules_lookup(pricing_rules, call.steel_mill,
                                    call.steel_type)
    IN  Has(price_rules, NetKind) /\ Has(price_rules, ArrivalKind)

\* C7: with the surcharge switched off the differential is no larger than
\* with it switched on, the net price is lower by exactly 30 when the
\* surcharge predicate matches and the rules exist and equal otherwise, and
\* the arrival price is the same.
C7_SurchargeMonotone ==
    (ret[TRUE] # None /\ ret[FALSE] # None) =>
        LET on == ret[TRUE][1]
            off == ret[FALSE][1]
        IN  /\ off[1] <= on[1]
            /\ on[2] - off[2] = IF SurchargeMatches /\ RulesExist THEN 30 ELSE 0
            /\ on[3] = off[3]

C7_Witness ==
    /\ ret[TRUE] # None /\ ret[FALSE] # None
    /\ SurchargeMatches /\ RulesExist
    /\ ret[TRUE][1][2] = ret[FALSE][1][2] + 30
    /\ ret[TRUE][1][1] > 0 /\ ret[FALSE][1][1] <= 0

(***************************************************************************)
(* Order, determinism and the rows of a spec without stock.                *)
(***************************************************************************)
\* C8: consecutive rows of the table have a non-decreasing building; with
\* the same building a non-decreasing sort key; with the same building and
\* sort key a non-increasing differential.
C8_GlobalSortOrder ==
    \A i \in 1..(Len(manual_table) - 1) :
        LET a == manual_table[i]
            b == manual_table[i + 1]
        IN  /\ a.building = b.building \/ str_less(a.building, b.building)
            /\ a.building = b.building => a.spec_num <= b.spec_num
            /\ (a.building = b.building /\ a.spec_num = b.spec_num)
                  => a.price_diff >= b.price_diff

C8_Witness ==
    /\ runs >= 1
    /\ Len(shipment_plan) >= 2
    /\ str_less(shipment_plan[2].building, shipment_plan[1].building)
    /\ \E i \in 1..(Len(manual_table) - 1) :
          /\ manual_table[i].building = manual_table[i + 1].building
          /\ manual_table[i].spec_num = manual_table[i + 1].spec_num
          /\ manual_table[i].price_diff > manual_table[i + 1].price_diff
    /\ manual_table[1].building = shipment_plan[2].building

\* C9: two runs on the same inputs return the same rows in the same order,
\* whatever the order in which the sets of lengths are iterated.
C9_SameTableEveryRun == runs >= 2 => manual_table = prev_table

NumericFields ==
    {"net_price", "arrival_price", "price_diff", "weight", "plan_tonnage",
     "ship_pieces", "ship_weight", "profit"}

NoMillOffers(line) == \A m \in DOMAIN available_specs :
                          line.spec \notin DOMAIN available_specs[m]

\* C10 as stated: a demand line whose spec no mill offers yields one row,
\* labelled no stock, and every numeric field of the row is zero.
C10_NoStockAllZero ==
    runs >= 1 =>
        \A line \in PlanLines :
            NoMillOffers(line) =>
                /\ Cardinality(LineRows(line)) = 1
                /\ \A i \in LineRows(line) :
                      /\ manual_table[i].mill = NoStock
                      /\ \A f \in NumericFields : manual_table[i][f] = 0

\* C10: a demand line whose spec no mill offers yields one row, labelled no
\* stock, whose planned tonnage is the line's tonnage rounded to two
\* decimals and whose other numeric fields are zero.
C10_NoStockZeroButPlan ==
    runs >= 1 =>
        \A line \in PlanLines :
            NoMillOffers(line) =>
                /\ Cardinality(LineRows(line)) = 1
                /\ \A i \in LineRows(line) :
                      /\ manual_table[i].mill = NoStock
                      /\ manual_table[i].plan_tonnage = Round2(line.tonnage)
                      /\ \A f \in NumericFields \ {"plan_tonnage"} :
                            manual_table[i][f] = 0

C10_Witness ==
    /\ runs >= 1
    /\ \E line \in PlanLines :
          /\ NoMillOffers(line)
          /\ \E i \in LineRows(line) : manual_table[i].plan_tonnage > 0
    /\ \E i \in 1..Len(manual_table) : ~manual_table[i].is_out_of_stock

(***************************************************************************)
(* Lookup misses of calculate_price_diff.                                  *)
(***************************************************************************)
\* The rule set as it was passed to the call.
MillAbsent == ~Has(call.rules, call.steel_mill)

SteelTypeAbsent ==
    Has(call.rules, call.steel_mill)
       /\ ~Has(call.rules[call.steel_mill], call.steel_type)

KindMissing ==
    /\ Has(call.rules, call.steel_mill)
    /\ Has(call.rules[call.steel_mill], call.steel_type)
    /\ \/ ~Has(call.rules[call.steel_mill][call.steel_type], NetKind)
       \/ ~Has(call.rules[call.steel_mill][call.steel_type], ArrivalKind)

SpecHasNoEntry ==
    /\ ~MillAbsent /\ ~SteelTypeAbsent /\ ~KindMissing
    /\ ~Has(call.rules[call.steel_mill][call.steel_type][NetKind], call.spec)
    /\ ~Has(call.rules[call.steel_mill][call.steel_type][ArrivalKind], call.spec)

\* C11: a call whose mill, steel type or price kind is missing from the rule
\* set returns differential 0 with the base prices as they were passed, no
\* surcharge added; a call whose price kinds exist but whose spec has no
\* entry returns the base prices plus the matching surcharge, and their
\* difference.
C11_LookupMissFallsBack ==
    \A e \in BOOLEAN :
        ret[e] # None =>
            /\ (MillAbsent \/ SteelTypeAbsent \/ KindMissing)
                  => ret[e][1] = <<0, call.base[1], call.base[2]>>
            /\ SpecHasNoEntry
                  => LET net == call.base[1]
                                + (IF e /\ SurchargeMatches THEN 30 ELSE 0)
                     IN  ret[e][1] = <<net - call.base[2], net, call.base[2]>>

C11_Witness ==
    /\ ret[TRUE] # None
    /\ MillAbsent
    /\ SurchargeMatches
    /\ call.base[1] > call.base[2]
    /\ ret[TRUE][1][1] = 0

(***************************************************************************)
(* Shortfall of calculate_ship_pieces.                                     *)
(***************************************************************************)
\* C13: for a positive tonnage and a positive piece weight the planned
\* tonnage exceeds the actual tonnage by at most the tolerance, and the
\* piece count is the floor of tonnage / weight or that floor plus one.
C13_NeverUnderShips ==
    (ret # None /\ call.tonnage > 0 /\ call.weight > 0)
       => /\ call.tonnage - ret[1][2] <= call.tolerance
          /\ ret[1][1] \in {Floor(call.tonnage, call.weight),
                            Floor(call.tonnage, call.weight) + 1}
          /\ ret[1][2] = ret[1][1] * call.weight

C13_Witness ==
    /\ ret # None
    /\ call.tonnage > 0
    /\ call.weight > 0
    /\ Floor(call.tonnage, call.weight) >= 1
    /\ call.tolerance >= 1
    /\ call.tonnage - Floor(call.tonnage, call.weight) * call.weight > call.tolerance
    /\ ret[1][1] = Floor(call.tonnage, call.weight) + 1

(***************************************************************************)
(* Frame of a run: the tables passed to generate_manual_pricing_table.     *)
(***************************************************************************)
InputTables ==
    <<pricing_rules, weight_dict, base_prices_dict, available_specs, shipment_plan>>

\* C12: a run leaves the price rule set, the weight table, the base price
\* table, the availability table and the shipment plan with the same keys
\* and values as before the run.
C12_InputsUnchanged == [][InputTables' = InputTables]_vars

(***************************************************************************)
(* Contiguity of the rows of a demand line.                                *)
(***************************************************************************)
\* C14: in the returned table no row of another (building, spec) pair lies
\* between two rows of one pair.
C14_GroupsContiguous ==
    \A i \in 1..Len(manual_table) : \A k \in (i + 1)..Len(manual_table) :
        same_group(manual_table[i], manual_table[k])
           => \A j \in (i + 1)..(k - 1) :
                 same_group(manual_table[i], manual_table[j])

====
